---- MODULE Spec2Model ----
(***************************************************************************)
(* Model of crypto_bot.py: the news aggregator (fetch_news), the price     *)
(* fetcher (get_current_prices), the narrative generator                   *)
(* (analyze_with_deepseek and the generators), the digest scheduler        *)
(* (send_scheduled_news) and the menu dispatcher (the handlers that main() *)
(* registers).  Times are minutes; a datetime is an integer number of      *)
(* minutes.  An exception is an explicit outcome of the operator that      *)
(* models the statement raising it.                                        *)
(***************************************************************************)
EXTENDS Integers, Sequences, FiniteSets, TLC

VARIABLES
    feeds,      \* fetch_news: what each of the six sources answers
    now,        \* fetch_news: datetime.utcnow() read at the start of the call
    news,       \* fetch_news: the local list `news`
    fpc,        \* fetch_news: "start" | "returned"
    result,     \* fetch_news: the returned list
    fraised,    \* fetch_news: TRUE iff an exception left the call
    market,     \* get_current_prices: what CoinGecko answers
    prices,     \* get_current_prices: the returned mapping
    ppc,        \* get_current_prices: "start" | "returned"
    dsresp,     \* analyze_with_deepseek: what DeepSeek answers
    prompt,     \* analyze_with_deepseek: the prompt it is called with
    analysis,   \* analyze_with_deepseek: the returned string
    apc,        \* analyze_with_deepseek: "start" | "returned"
    gfun,       \* generate_*: which generator runs, and for which coin
    gnews,      \* generate_*: the news list passed in
    gprices,    \* generate_*: the local `prices`
    gtext,      \* generate_*: the string from analyze_with_deepseek
    gresult,    \* generate_*: the returned text
    gpc,        \* generate_*: "start" | "prices" | "prompt" | "analysed" |
                \*             "returned" | "raised"
    due,        \* job queue: when the repeating job fires next
    ticks,      \* job queue: how often the job has fired
    clock,      \* send_scheduled_news: datetime.utcnow()
    tnow,       \* send_scheduled_news: the local `now` (UTC + 1h)
    tpc,        \* send_scheduled_news: "idle" | "fetch" | "prices" | "send" | "done"
    hot,        \* send_scheduled_news: the local `hot_news`
    tmessage,   \* send_scheduled_news: the local `message` with the price block
    tcalls,     \* send_scheduled_news: the calls this tick made to fetch_news
                \*             and get_current_prices
    tescaped,   \* send_scheduled_news: TRUE iff an exception left the callback
    tlog,       \* send_scheduled_news: errors logged by its except clause
    outbox,     \* the chat: the messages bot.send_message delivered
    conv,       \* ConversationHandler: the state of the chat's conversation
    queue,      \* Application: the updates received and not yet processed
    running,    \* Application: the handler being awaited, <<>> when none
    messages,   \* the chat: the bot's messages, each a text and a keyboard
    last        \* Application: the update processed last and its handler

Range(seq) == {seq[i] : i \in 1..Len(seq)}

(***************************************************************************)
(* Program constants.                                                      *)
(***************************************************************************)
\* SOURCES, in dict order: CryptoPanic is the JSON API, the rest are RSS.
SourceNames == <<"CryptoPanic", "CoinDesk", "CoinTelegraph", "Decrypt", "Binance", "Coinbase">>

NumSources == Len(SourceNames)

\* timedelta(hours=24), in minutes
NewsWindow == 1440

\* news[:20]
MaxNews == 20

(***************************************************************************)
(* Bounds of the model.                                                    *)
(***************************************************************************)
\* entries in the response of the one source whose body is varied freely
MaxEntries == 3

\* entries in the response of every other source that answers
FillLen == 5

\* the instant at which fetch_news is called, and the midnight (UTC) of the
\* day on which the job first fires (minutes since the epoch)
StartTime == 100800

(***************************************************************************)
(* Inputs: the responses of the sources.                                   *)
(*   kind    "ok" (HTTP 200 with a readable body), "http_error" (status    *)
(*           other than 200), "neterr", "timeout" (session.get raises),    *)
(*           "badbody" (HTTP 200, body is not what the parser expects),    *)
(*           "noresults" (HTTP 200, JSON object without "results")         *)
(*   entries the posts / feed entries, each                                *)
(*           date   "ok" | "missing" (no published_at / published_parsed  *)
(*                  key) | "none" (key present, value None) | "garbage"    *)
(*                  (a string fromisoformat rejects)                       *)
(*           tz     "utc" (the string carries Z or an offset, so the       *)
(*                  parsed datetime is aware) | "naive"                    *)
(*           published, title, link (FALSE = the field is missing), id     *)
(***************************************************************************)
\* ages (minutes before the call) of the entries of a feed, by position: out
\* of order, around the 4h limit of the digest, one beyond the 24h window
Ages == <<300, 30, 600, 120, 1441, 239, 240>>

Age(s, i) == Ages[((s + i) % Len(Ages)) + 1]

Regular(s, i, t, tz) ==
    [date |-> "ok", tz |-> tz, published |-> t - Age(s, i),
     title |-> TRUE, link |-> TRUE, id |-> i]

IrregularKinds(s) ==
    {"nodate", "datenone", "old", "edge", "notitle", "nolink", "old_notitle"}
    \cup (IF s = 1 THEN {"garbage"} ELSE {})

Irregular(s, i, t, tz, k) ==
    LET r == Regular(s, i, t, tz) IN
    CASE k = "nodate"      -> [r EXCEPT !.date = "missing"]
      [] k = "datenone"    -> [r EXCEPT !.date = "none"]
      [] k = "garbage"     -> [r EXCEPT !.date = "garbage"]
      [] k = "old"         -> [r EXCEPT !.published = t - NewsWindow - 1]
      [] k = "edge"        -> [r EXCEPT !.published = t - NewsWindow]
      [] k = "notitle"     -> [r EXCEPT !.title = FALSE]
      [] k = "nolink"      -> [r EXCEPT !.link = FALSE]
      [] k = "old_notitle" -> [r EXCEPT !.published = t - NewsWindow - 1, !.title = FALSE]

\* n regular entries
Fill(s, n, t, tz) == [i \in 1..n |-> Regular(s, i, t, tz)]

\* n entries, regular but for the one at position p
OneOff(s, n, p, t, tz, k) ==
    [i \in 1..n |-> IF i = p THEN Irregular(s, i, t, tz, k) ELSE Regular(s, i, t, tz)]

\* CryptoPanic stamps its posts with a trailing Z; a string without an offset
\* parses too, into a naive datetime
TzOf(s) == IF s = 1 THEN {"utc", "naive"} ELSE {"naive"}

Bodies(s, t) ==
    {Fill(s, n, t, tz) : n \in 0..MaxEntries, tz \in TzOf(s)}
    \cup UNION {{OneOff(s, n, p, t, tz, k) :
                    p \in 1..n, tz \in TzOf(s), k \in IrregularKinds(s)} :
                n \in 1..MaxEntries}

FailKinds == {"http_error", "neterr", "timeout"}

Down(k) == [kind |-> k, entries |-> <<>>]

\* every answer the varied source can give
Responses(s, t) ==
    {[kind |-> "ok", entries |-> b] : b \in Bodies(s, t)}
    \cup {Down(k) : k \in FailKinds \cup {"badbody", "noresults"}}

\* the answer of a source that is up and is not the varied one
FillResponse(s, t) ==
    [kind |-> "ok", entries |-> Fill(s, FillLen, t, "naive")]

\* one source (f) answers anything (r), each other one is down (with failure
\* dk) or answers FillResponse
World(f, r, down, dk, t) ==
    [s \in 1..NumSources |->
        IF s = f THEN r
        ELSE IF s \in down THEN Down(dk) ELSE FillResponse(s, t)]

(***************************************************************************)
(* fetch_news                                                              *)
(***************************************************************************)
Threshold(t) == t - NewsWindow

\* the dict appended to news; tz is part of the datetime in "published"
NewsItem(name, e) ==
    [title |-> e.id, link |-> e.id, source |-> name, published |-> e.published,
     tz |-> e.tz]

\* session.get / response.json() / response.text(): TRUE iff it raises
RequestRaises(resp) == resp.kind \in {"neterr", "timeout"}

\* the posts of data.get("results", []), or the entries of feedparser.parse(text)
Parsed(resp) == IF resp.kind = "ok" THEN resp.entries ELSE <<>>

\* datetime.fromisoformat(post["published_at"].replace("Z", "+00:00")) raises
PostDateRaises(post) == post.date \in {"missing", "none", "garbage"}

\* published >= time_threshold raises TypeError for an aware datetime against
\* the naive threshold
CompareRaises(e) == e.tz = "utc"

\* the for loop over the posts of CryptoPanic, from post i on; exc = an
\* exception left the loop
RECURSIVE CollectPosts(_, _, _, _)
CollectPosts(posts, i, threshold, acc) ==
    IF i > Len(posts) THEN [news |-> acc, exc |-> FALSE]
    ELSE LET post == posts[i] IN
         IF PostDateRaises(post) \/ CompareRaises(post)
         THEN [news |-> acc, exc |-> TRUE]
         ELSE IF post.published >= threshold
         THEN IF ~post.title \/ ~post.link
              THEN [news |-> acc, exc |-> TRUE]
              ELSE CollectPosts(posts, i + 1, threshold,
                                Append(acc, NewsItem("CryptoPanic", post)))
         ELSE CollectPosts(posts, i + 1, threshold, acc)

\* the for loop over feed.entries of one RSS feed, from entry i on
RECURSIVE CollectEntries(_, _, _, _, _)
CollectEntries(name, entries, i, threshold, acc) ==
    IF i > Len(entries) THEN [news |-> acc, exc |-> FALSE]
    ELSE LET entry == entries[i] IN
         IF entry.date = "missing"
         THEN CollectEntries(name, entries, i + 1, threshold, acc)
         ELSE IF entry.date # "ok"
         THEN [news |-> acc, exc |-> TRUE]
         ELSE IF entry.published >= threshold
         THEN IF ~entry.title \/ ~entry.link
              THEN [news |-> acc, exc |-> TRUE]
              ELSE CollectEntries(name, entries, i + 1, threshold,
                                  Append(acc, NewsItem(name, entry)))
         ELSE CollectEntries(name, entries, i + 1, threshold, acc)

\* one try block: the value of `news` after it.  The except clause logs and
\* goes on, so what was appended before the exception stays.
TryCryptoPanic(resp, threshold, acc) ==
    IF RequestRaises(resp) \/ resp.kind = "badbody" THEN acc
    ELSE IF resp.kind = "http_error" THEN acc
    ELSE CollectPosts(Parsed(resp), 1, threshold, acc).news

\* mutant: the failure of one feed throws away what the sources before it gave
TryRssNotIsolated(name, resp, threshold, acc) ==
    IF RequestRaises(resp) \/ resp.kind = "http_error" THEN <<>>
    ELSE CollectEntries(name, Parsed(resp), 1, threshold, acc).news

TryRss(name, resp, threshold, acc) ==
    IF RequestRaises(resp) THEN acc
    ELSE IF resp.kind = "http_error" THEN acc
    ELSE CollectEntries(name, Parsed(resp), 1, threshold, acc).news

TrySource(s, resp, threshold, acc) ==
    IF s = 1 THEN TryCryptoPanic(resp, threshold, acc)
    ELSE TryRss(SourceNames[s], resp, threshold, acc)

\* list.sort compares the keys: TypeError when aware and naive datetimes meet
SortRaises(list) == \E i, j \in 1..Len(list) : list[i].tz # list[j].tz

\* list.sort(key=published, reverse=True): stable, so equal keys keep their order
RECURSIVE InsertDesc(_, _)
InsertDesc(sorted, x) ==
    IF sorted = <<>> THEN <<x>>
    ELSE IF Head(sorted).published >= x.published
         THEN <<Head(sorted)>> \o InsertDesc(Tail(sorted), x)
         ELSE <<x>> \o sorted

RECURSIVE SortDescFrom(_, _, _)
SortDescFrom(list, i, sorted) ==
    IF i > Len(list) THEN sorted
    ELSE SortDescFrom(list, i + 1, InsertDesc(sorted, list[i]))

\* mutant: the list is returned in the order of collection
SortOmitted(list) == list

SortDesc(list) == SortDescFrom(list, 1, <<>>)

\* news[:20]
Truncate(list) == SubSeq(list, 1, IF Len(list) < MaxNews THEN Len(list) ELSE MaxNews)

\* the whole of fetch_news as a function of the answers and the clock
RECURSIVE CollectAll(_, _, _, _)
CollectAll(world, s, threshold, acc) ==
    IF s > NumSources THEN acc
    ELSE CollectAll(world, s + 1, threshold, TrySource(s, world[s], threshold, acc))

FetchNews(world, t) == Truncate(SortDesc(CollectAll(world, 1, Threshold(t), <<>>)))

\* --- fetch_news as one call ---
newsVars == <<feeds, now, news, fpc, result, fraised>>

\* the whole call: the try block of CryptoPanic, the try block of each RSS
\* feed in the order of SOURCES, the sort and the slice
fetch_news ==
    /\ fpc = "start"
    /\ news' = CollectAll(feeds, 1, Threshold(now), <<>>)
    /\ fraised' = SortRaises(news')
    /\ result' = IF fraised' THEN <<>> ELSE Truncate(SortDesc(news'))
    /\ fpc' = "returned"
    /\ UNCHANGED <<feeds, now>>

(***************************************************************************)
(* get_current_prices                                                      *)
(***************************************************************************)
\* coin_mapping (CoinGecko id -> symbol), in the order of SUPPORTED_COINS
CoinIds == <<"bitcoin", "ethereum", "solana", "toncoin", "stellar", "binancecoin", "litecoin">>

SUPPORTED_COINS == <<"BTC", "ETH", "SOL", "TON", "XLM", "BNB", "LTC">>

Symbols == Range(SUPPORTED_COINS)

\* an id CoinGecko may return that coin_mapping does not know
UnknownId == "dogecoin"

AllIds == Range(CoinIds) \cup {UnknownId}

IndexOf(id) == CHOOSE i \in 1..Len(CoinIds) : CoinIds[i] = id

\* coin_mapping.get(coin_id): "" stands for None
SymbolOf(id) == IF id \in Range(CoinIds) THEN SUPPORTED_COINS[IndexOf(id)] ELSE ""

\* the figures CoinGecko quotes for an id
UsdOf(id) == IF id = UnknownId THEN 1 ELSE 100 * IndexOf(id)

ChangeOf(id) == IF id = UnknownId THEN 1 ELSE IndexOf(id) - 4

\* A market answer: kind as for the news sources ("badbody": HTTP 200 whose
\* body response.json() rejects); body maps each id of the JSON object to the
\* shape of its entry: "full" (usd and usd_24h_change), "nochange" (usd
\* only), "nousd" (no usd field).  An id out of DOMAIN body is not in the object.
EntryShapes == {"full", "nochange", "nousd"}

\* the objects with any set of ids, at most one entry of which is not "full"
MarketBodies ==
    UNION {{[id \in present |-> IF id = odd THEN shape ELSE "full"] :
              odd \in present \cup {""}, shape \in EntryShapes} :
           present \in SUBSET AllIds}

MarketResponses ==
    {[kind |-> "ok", body |-> b] : b \in MarketBodies}
    \cup {[kind |-> k, body |-> <<>>] : k \in FailKinds \cup {"badbody"}}

\* a PriceQuote: priced = FALSE stands for "price": "N/A"
Quote(id, shape) ==
    [priced |-> TRUE, price |-> UsdOf(id),
     change |-> IF shape = "full" THEN ChangeOf(id) ELSE 0]

Unavailable == [priced |-> FALSE, price |-> 0, change |-> 0]

\* the fallback: every supported coin, "N/A", change 0
Fallback == [sym \in Symbols |-> Unavailable]

\* coin_data["usd"] raises KeyError, for an id coin_mapping knows
UsdRaises(body) ==
    \E id \in DOMAIN body : SymbolOf(id) # "" /\ body[id] = "nousd"

\* the dict `result` after the loop over data.items()
Mapped(body) ==
    LET known == {id \in DOMAIN body : SymbolOf(id) # ""} IN
    [sym \in {SymbolOf(id) : id \in known} |->
        LET id == CHOOSE x \in known : SymbolOf(x) = sym IN Quote(id, body[id])]

\* mutant: after a failure, what was fetched is returned instead of the fallback
GetCurrentPricesNoFallback(resp) ==
    IF resp.kind = "ok" /\ ~UsdRaises(resp.body) THEN Mapped(resp.body)
    ELSE <<>>

\* get_current_prices: the returned mapping (the function never raises: the
\* try block holds every statement that can)
GetCurrentPrices(resp) ==
    IF RequestRaises(resp) \/ resp.kind = "badbody" THEN Fallback
    ELSE IF resp.kind # "ok" THEN Fallback
    ELSE IF UsdRaises(resp.body) THEN Fallback
    ELSE Mapped(resp.body)

get_current_prices ==
    /\ ppc = "start"
    /\ prices' = GetCurrentPrices(market)
    /\ ppc' = "returned"
    /\ UNCHANGED market

pricesVars == <<market, prices, ppc>>

(***************************************************************************)
(* analyze_with_deepseek                                                   *)
(***************************************************************************)
\* the fixed error string
ErrorText == "Oshibka generatsii analiza. Poprobuyte pozzhe."

\* texts the model may answer with
Texts == {"report A", "report B", ""}

\* choices in an answer
MaxChoices == 2

\* one element of "choices": message = FALSE: no "message" key; content =
\* FALSE: message has no "content" key; text: the content
Choices ==
    {[message |-> TRUE, content |-> TRUE, text |-> t] : t \in Texts}
    \cup {[message |-> FALSE, content |-> FALSE, text |-> ""],
          [message |-> TRUE, content |-> FALSE, text |-> ""]}

RECURSIVE SeqsUpTo(_, _)
SeqsUpTo(S, n) ==
    IF n = 0 THEN {<<>>}
    ELSE LET shorter == SeqsUpTo(S, n - 1) IN
         shorter \cup {Append(q, x) : q \in shorter, x \in S}

\* a JSON body: shape "object" with or without the key "choices", or
\* "other" (valid JSON that is no object)
DeepSeekBodies ==
    {[shape |-> "object", haschoices |-> TRUE, choices |-> c] :
        c \in SeqsUpTo(Choices, MaxChoices)}
    \cup {[shape |-> "object", haschoices |-> FALSE, choices |-> <<>>],
          [shape |-> "other", haschoices |-> FALSE, choices |-> <<>>]}

DeepSeekResponses ==
    {[kind |-> "ok", body |-> b] : b \in DeepSeekBodies}
    \cup {[kind |-> k, body |-> <<>>] : k \in FailKinds \cup {"badbody"}}

Prompts == {"full", "weekly", "coin"}

\* mutant: a first choice without message.content yields an empty text
\* instead of the error string
AnalyzeLenient(resp) ==
    IF RequestRaises(resp) \/ resp.kind # "ok" THEN ErrorText
    ELSE IF resp.body.shape # "object" \/ ~resp.body.haschoices THEN ErrorText
    ELSE IF Len(resp.body.choices) = 0 THEN ErrorText
    ELSE resp.body.choices[1].text

\* analyze_with_deepseek: the returned string.  Every statement that can
\* raise is inside the try block, whose except clause falls through to the
\* final return.
AnalyzeWithDeepseek(resp) ==
    IF RequestRaises(resp) \/ resp.kind = "badbody" THEN ErrorText
    ELSE IF resp.kind # "ok" THEN ErrorText
    ELSE IF resp.body.shape # "object" THEN ErrorText
    ELSE IF ~(resp.body.haschoices /\ Len(resp.body.choices) > 0) THEN ErrorText
    ELSE LET first == resp.body.choices[1] IN
         IF ~first.message \/ ~first.content THEN ErrorText
         ELSE first.text

analyze_with_deepseek ==
    /\ apc = "start"
    /\ analysis' = AnalyzeWithDeepseek(dsresp)
    /\ apc' = "returned"
    /\ UNCHANGED <<dsresp, prompt>>

deepseekVars == <<dsresp, prompt, analysis, apc>>

(***************************************************************************)
(* generate_full_analysis, generate_weekly_forecast, generate_coin_analysis*)
(***************************************************************************)
\* format_price_change: the icon and the absolute value
FormatPriceChange(change) ==
    [up |-> change >= 0, pct |-> IF change >= 0 THEN change ELSE -change]

\* one line of the price block
PriceLine(q) ==
    [priced |-> q.priced, price |-> q.price, change |-> FormatPriceChange(q.change)]

\* the price block: a line for every key of the mapping
PriceBlock(p) == [sym \in DOMAIN p |-> PriceLine(p[sym])]

\* the coins whose prices the prompt of the market-wide reports subscripts
PromptCoins == {"BTC", "ETH", "SOL"}

\* prices['BTC']['price'] and the like raise KeyError
PromptRaises(fun, p) ==
    fun.name \in {"full", "weekly"} /\ ~(PromptCoins \subseteq DOMAIN p)

\* the coin a title names (coin.lower() in item['title'].lower())
TitleCoin(title) == SUPPORTED_COINS[((title - 1) % Len(SUPPORTED_COINS)) + 1]

RECURSIVE SelectSeq2(_, _, _)
SelectSeq2(seq, coin, i) ==
    IF i > Len(seq) THEN <<>>
    ELSE IF TitleCoin(seq[i].title) = coin
         THEN <<seq[i]>> \o SelectSeq2(seq, coin, i + 1)
         ELSE SelectSeq2(seq, coin, i + 1)

Prefix(seq, n) == SubSeq(seq, 1, IF Len(seq) < n THEN Len(seq) ELSE n)

\* news_links of generate_coin_analysis: the links of coin_news[:5]
NewsLinks(coin, list) ==
    LET picked == Prefix(SelectSeq2(list, coin, 1), 5) IN
    [i \in 1..Len(picked) |-> picked[i].link]

\* the value returned: price_block + "\n" + analysis (+ the sources list)
Generated(fun, p, text, list) ==
    IF fun.name = "coin"
    THEN [price_block |->
              PriceLine(IF fun.coin \in DOMAIN p THEN p[fun.coin] ELSE Unavailable),
          analysis |-> text, links |-> NewsLinks(fun.coin, list)]
    ELSE [price_block |-> PriceBlock(p), analysis |-> text, links |-> <<>>]

Generators ==
    {[name |-> n, coin |-> ""] : n \in {"full", "weekly"}}
    \cup {[name |-> "coin", coin |-> c] : c \in Symbols}

\* prices = await get_current_prices()
GenPrices ==
    /\ gpc = "start"
    /\ \E resp \in MarketResponses : gprices' = GetCurrentPrices(resp)
    /\ gpc' = "prices"
    /\ UNCHANGED <<gfun, gnews, gtext, gresult>>

\* the price block, the context and the prompt are built
GenPrompt ==
    /\ gpc = "prices"
    /\ gpc' = IF PromptRaises(gfun, gprices) THEN "raised" ELSE "prompt"
    /\ UNCHANGED <<gfun, gnews, gprices, gtext, gresult>>

\* await analyze_with_deepseek(prompt)
GenAnalyze ==
    /\ gpc = "prompt"
    /\ \E resp \in DeepSeekResponses : gtext' = AnalyzeWithDeepseek(resp)
    /\ gpc' = "analysed"
    /\ UNCHANGED <<gfun, gnews, gprices, gresult>>

GenReturn ==
    /\ gpc = "analysed"
    /\ gresult' = Generated(gfun, gprices, gtext, gnews)
    /\ gpc' = "returned"
    /\ UNCHANGED <<gfun, gnews, gprices, gtext>>

generateVars == <<gfun, gnews, gprices, gtext, gresult, gpc>>

(***************************************************************************)
(* send_scheduled_news and its registration in main()                      *)
(***************************************************************************)
\* timedelta(hours=1): the fixed offset of the window, in minutes
UtcOffset == 60

\* 14400 seconds: the age below which an item is hot, in minutes
HotWindow == 240

\* interval=14400 seconds of run_repeating, in minutes
Interval == 240

\* hot_news[:3]
MaxHeadlines == 3

\* run_repeating(send_scheduled_news, interval=14400, first=10) names no
\* chat_id, so context.job.chat_id is None
JobChatId == "None"

\* the minute of the day of a datetime, and datetime.hour
MinuteOfDay(t) == t % (24 * 60)

HourOf(t) == MinuteOfDay(t) \div 60

\* not (7 <= now.hour <= 21)
OutsideHours(t) == ~(7 <= HourOf(t) /\ HourOf(t) <= 21)

\* minutes that pass between two readings of the clock within a tick
MaxDelay == 1

\* firings of the job
MaxTicks == 2

\* UTC minutes of the day at which the job first fires: local 06:59, 07:00,
\* 10:00, 21:00, 21:30, 21:59, 22:00, 00:30
FirstTicks == {359, 360, 540, 1200, 1230, 1259, 1260, 1410}

\* the answers of the sources a tick is tried with: one source answers
\* anything, the others are all up or all down
TickWorld(f, r, alldown, t) ==
    World(f, r, IF alldown THEN (1..NumSources) \ {f} ELSE {}, "timeout", t)

\* the answers of CoinGecko a tick is tried with: a failure, or every id
\* quoted with at most one entry that is not "full", or an empty object
TickMarket ==
    {r \in MarketResponses :
        r.kind # "ok" \/ DOMAIN r.body = AllIds \/ DOMAIN r.body = {}}

\* [n for n in news if (utcnow() - n['published']).total_seconds() < 14400]
RECURSIVE HotNews(_, _, _)
HotNews(list, t, i) ==
    IF i > Len(list) THEN <<>>
    ELSE IF t - list[i].published < HotWindow
         THEN <<list[i]>> \o HotNews(list, t, i + 1)
         ELSE HotNews(list, t, i + 1)

\* one numbered headline with its "N ago" label
Headline(item, t) ==
    [title |-> item.title, link |-> item.link, source |-> item.source,
     hours |-> (t - item.published) \div 60, minutes |-> (t - item.published) % 60]

\* the message: the headlines of hot_news[:3], then the price block
Digest(hotlist, p, t) ==
    LET top == Prefix(hotlist, MaxHeadlines) IN
    [items |-> [i \in 1..Len(top) |-> Headline(top[i], t)],
     price_block |-> PriceBlock(p)]

\* bot.send_message raises: Telegram rejects a request without chat_id; with
\* one, the transport may still fail
SendRaises(chat_id, ok) == chat_id = "None" \/ ~ok

\* mutant: the except clause does not match what the send raises
TickCatchesNothing(raised) == FALSE

\* except Exception as e: what is raised inside the try block of the callback
\* is caught and logged
TickCatches(raised) == raised

\* the job fires: the window check at the top of the callback
TickStart ==
    /\ tpc \in {"idle", "done"}
    /\ ticks < MaxTicks
    /\ ticks' = ticks + 1
    /\ clock' = due
    /\ due' = due + Interval
    /\ tnow' = due + UtcOffset
    /\ tpc' = IF OutsideHours(tnow') THEN "done" ELSE "fetch"
    /\ hot' = <<>> /\ tmessage' = <<>> /\ tcalls' = {}
    /\ UNCHANGED <<tescaped, tlog, outbox>>

\* news = await fetch_news(); hot_news; the return when it is empty
TickFetch ==
    /\ tpc = "fetch"
    /\ \E f \in 1..NumSources, alldown \in BOOLEAN, d \in 0..MaxDelay :
       \E r \in Responses(f, clock) :
          /\ clock' = clock + d
          /\ hot' = HotNews(FetchNews(TickWorld(f, r, alldown, clock), clock), clock', 1)
    /\ tcalls' = tcalls \cup {"fetch_news"}
    /\ tpc' = IF hot' = <<>> THEN "done" ELSE "prices"
    /\ UNCHANGED <<due, ticks, tnow, tmessage, tescaped, tlog, outbox>>

\* prices = await get_current_prices(); the price block and the message
TickPrices ==
    /\ tpc = "prices"
    /\ \E resp \in TickMarket : tmessage' = Digest(hot, GetCurrentPrices(resp), clock)
    /\ tcalls' = tcalls \cup {"get_current_prices"}
    /\ tpc' = "send"
    /\ UNCHANGED <<due, ticks, clock, tnow, hot, tescaped, tlog, outbox>>

\* await context.bot.send_message(chat_id=context.job.chat_id, ...); what it
\* raises is caught by the except clause of the callback
TickSend ==
    /\ tpc = "send"
    /\ \E ok \in BOOLEAN :
          LET raised == SendRaises(JobChatId, ok) IN
          /\ outbox' = IF raised THEN outbox
                        ELSE Append(outbox, [chat_id |-> JobChatId, text |-> tmessage])
          /\ tescaped' = (raised /\ ~TickCatches(raised))
          /\ tlog' = IF raised /\ TickCatches(raised) THEN tlog + 1 ELSE tlog
    /\ tpc' = "done"
    /\ UNCHANGED <<due, ticks, clock, tnow, hot, tmessage, tcalls>>

tickVars ==
    <<due, ticks, clock, tnow, tpc, hot, tmessage, tcalls, tescaped, tlog, outbox>>

(***************************************************************************)
(* The handlers and their registration in main()                           *)
(***************************************************************************)
\* ConversationHandler.END, and the states of range(3)
END == "END"

GENERATING_ANALYSIS == "GENERATING_ANALYSIS"

GENERATING_FORECAST == "GENERATING_FORECAST"

SELECTING_COIN == "SELECTING_COIN"

\* updates waiting in the queue
MaxQueue == 2

\* messages of the bot in the chat
MaxMessages == 2

\* callback_data of the buttons of each keyboard
CoinButtons == {[data |-> "coin", coin |-> c] : c \in Symbols}

Button(d) == [data |-> d, coin |-> ""]

Keyboard(k) ==
    CASE k = "main"   -> {Button("daily"), Button("weekly"), Button("news"),
                          Button("specific_coin")}
      [] k = "coins"  -> CoinButtons \cup {Button("back_to_main")}
      [] k = "cancel" -> {Button("cancel")}
      [] OTHER        -> {}

StartCommand == [kind |-> "command", data |-> "/start", coin |-> "", msg |-> 0]

Click(m, b) == [kind |-> "callback", data |-> b.data, coin |-> b.coin, msg |-> m]

\* the texts that show the outcome of a generation
Results == {"daily_result", "weekly_result", "coin_result"}

\* states={...}: the handler of the conversation state that matches a callback
StateHandler(state, u) ==
    IF u.kind # "callback" THEN "none"
    ELSE IF state \in {GENERATING_ANALYSIS, GENERATING_FORECAST}
    THEN (IF u.data = "cancel" THEN "cancel" ELSE "none")
    ELSE IF state = SELECTING_COIN
    THEN (CASE u.data = "coin"         -> "coin_analysis"
            [] u.data = "back_to_main" -> "back_to_main"
            [] u.data = "cancel"       -> "cancel"
            [] OTHER                   -> "none")
    ELSE "none"

\* entry_points=[...]
EntryHandler(u) ==
    IF u.kind # "callback" THEN "none"
    ELSE CASE u.data = "daily"         -> "daily_analysis"
           [] u.data = "weekly"        -> "weekly_forecast"
           [] u.data = "specific_coin" -> "specific_coin"
           [] OTHER                    -> "none"

\* fallbacks=[CommandHandler("start", start)]
FallbackHandler(u) ==
    IF u.kind = "command" /\ u.data = "/start" THEN "start" ELSE "none"

\* ConversationHandler.check_update: without a conversation the entry
\* points; within one the handlers of its state, then the fallbacks
\* (allow_reentry is not set, so the entry points are not tried again)
ConvHandler(state, u) ==
    IF state = END THEN EntryHandler(u)
    ELSE IF StateHandler(state, u) # "none" THEN StateHandler(state, u)
    ELSE FallbackHandler(u)

\* the handlers added by add_handler after the conversation handler
LaterHandler(u) ==
    IF u.kind # "callback" THEN "none"
    ELSE CASE u.data = "news"         -> "show_news"
           [] u.data = "cancel"       -> "cancel"
           [] u.data = "back_to_main" -> "back_to_main"
           [] OTHER                   -> "none"

\* Application.process_update over the handlers of group 0 in the order of
\* add_handler: the first whose check_update matches runs, alone.  conv =
\* TRUE: the conversation handler runs it and takes its return value.
Route(state, u) ==
    IF u.kind = "command" /\ u.data = "/start"
    THEN [handler |-> "start", conv |-> FALSE]
    ELSE IF ConvHandler(state, u) # "none"
    THEN [handler |-> ConvHandler(state, u), conv |-> TRUE]
    ELSE [handler |-> LaterHandler(u), conv |-> FALSE]

\* handlers that await fetch_news (and a generator) before they finish
Slow == {"daily_analysis", "weekly_forecast", "coin_analysis", "show_news"}

\* the message a handler shows before it awaits anything slow
FirstRender(h) ==
    CASE h = "start"           -> [text |-> "welcome", keyboard |-> "main"]
      [] h = "cancel"          -> [text |-> "cancelled", keyboard |-> "main"]
      [] h = "back_to_main"    -> [text |-> "choose", keyboard |-> "main"]
      [] h = "specific_coin"   -> [text |-> "pick_coin", keyboard |-> "coins"]
      [] h = "daily_analysis"  -> [text |-> "wait_daily", keyboard |-> "cancel"]
      [] h = "weekly_forecast" -> [text |-> "wait_weekly", keyboard |-> "cancel"]
      [] h = "coin_analysis"   -> [text |-> "wait_coin", keyboard |-> "cancel"]

\* the message a slow handler shows at its end
FinalRender(h) ==
    CASE h = "daily_analysis"  -> [text |-> "daily_result", keyboard |-> "main"]
      [] h = "weekly_forecast" -> [text |-> "weekly_result", keyboard |-> "main"]
      [] h = "coin_analysis"   -> [text |-> "coin_result", keyboard |-> "main"]
      [] h = "show_news"       -> [text |-> "news_list", keyboard |-> "main"]

\* the value a handler returns (show_news returns None)
Returns(h) == IF h = "specific_coin" THEN SELECTING_COIN ELSE END

\* the generator a slow handler awaits
GeneratorOf(h, coin) ==
    CASE h = "daily_analysis"  -> [name |-> "full", coin |-> ""]
      [] h = "weekly_forecast" -> [name |-> "weekly", coin |-> ""]
      [] OTHER                 -> [name |-> "coin", coin |-> coin]

\* the conversation state after a handler returned
NextConv(state, r, h) ==
    IF r.conv /\ h # "show_news" THEN Returns(h) ELSE state

\* the user sends /start
UserStart ==
    /\ Len(queue) < MaxQueue
    /\ Len(messages) + Len(SelectSeq(queue, LAMBDA u : u.kind = "command")) < MaxMessages
    /\ queue' = Append(queue, StartCommand)
    /\ UNCHANGED <<conv, running, messages, last>>

\* the user presses a button of a keyboard the chat shows
UserClick ==
    /\ Len(queue) < MaxQueue
    /\ \E m \in 1..Len(messages) : \E b \in Keyboard(messages[m].keyboard) :
          queue' = Append(queue, Click(m, b))
    /\ UNCHANGED <<conv, running, messages, last>>

\* the application takes the next update; updates are processed one at a
\* time (concurrent_updates is not set), so only when no handler is awaited
Dispatch ==
    /\ running = <<>>
    /\ queue # <<>>
    /\ LET u == Head(queue)
           r == Route(conv, u)
           h == r.handler
       IN /\ queue' = Tail(queue)
          /\ last' = [update |-> u, handler |-> h]
          /\ IF h = "none"
             THEN UNCHANGED <<conv, running, messages>>
             ELSE /\ messages' =
                        IF h = "start" THEN Append(messages, FirstRender(h))
                        ELSE IF h = "show_news" THEN messages
                        ELSE [messages EXCEPT ![u.msg] = FirstRender(h)]
                  /\ IF h \in Slow
                     THEN /\ running' = [handler |-> h, update |-> u, route |-> r]
                          /\ conv' = conv
                     ELSE /\ running' = <<>>
                          /\ conv' = NextConv(conv, r, h)

\* the awaited handler ends: it renders its result and returns, or the
\* generator raised and the exception leaves the handler
HandlerFinish ==
    /\ running # <<>>
    /\ LET h == running.handler
           u == running.update
           fun == GeneratorOf(h, u.coin)
       IN \E resp \in TickMarket :
            IF h # "show_news" /\ PromptRaises(fun, GetCurrentPrices(resp))
            THEN UNCHANGED <<conv, messages>>
            ELSE /\ messages' = [messages EXCEPT ![u.msg] = FinalRender(h)]
                 /\ conv' = NextConv(conv, running.route, h)
    /\ running' = <<>>
    /\ UNCHANGED <<queue, last>>

menuVars == <<conv, queue, running, messages, last>>

vars == <<newsVars, pricesVars, deepseekVars, generateVars, tickVars, menuVars>>

\* the news lists the generators are tried with: none, and a full list
AllUp(t) == World(1, FillResponse(1, t), {}, "neterr", t)

NewsInputs == {<<>>, FetchNews(AllUp(StartTime), StartTime)}

(***************************************************************************)
(* Specifications: one per component, the other components idle.           *)
(***************************************************************************)
\* fetch_news is called at StartTime, against any answers of the sources
InitNews ==
    /\ now = StartTime
    /\ \E f \in 1..NumSources :
       \E r \in Responses(f, StartTime), down \in SUBSET ((1..NumSources) \ {f}),
          dk \in FailKinds :
            feeds = World(f, r, down, dk, StartTime)
    /\ news = <<>> /\ fpc = "start" /\ result = <<>> /\ fraised = FALSE
    /\ market = <<>> /\ prices = <<>> /\ ppc = "idle"
    /\ dsresp = <<>> /\ prompt = "" /\ analysis = "" /\ apc = "idle"
    /\ gfun = <<>> /\ gnews = <<>> /\ gprices = <<>> /\ gtext = ""
    /\ gresult = <<>> /\ gpc = "idle"
    /\ due = StartTime /\ ticks = 0 /\ clock = StartTime /\ tnow = StartTime
    /\ tpc = "off" /\ hot = <<>> /\ tmessage = <<>> /\ tcalls = {}
    /\ tescaped = FALSE /\ tlog = 0 /\ outbox = <<>>
    /\ conv = END /\ queue = <<>> /\ running = <<>> /\ messages = <<>>
    /\ last = <<>>

NewsNext == fetch_news /\ UNCHANGED <<pricesVars, deepseekVars, generateVars, tickVars, menuVars>>

SpecNews == InitNews /\ [][NewsNext]_vars

\* get_current_prices is called, against any answer of CoinGecko
InitPrices ==
    /\ market \in MarketResponses
    /\ prices = <<>> /\ ppc = "start"
    /\ now = StartTime /\ feeds = <<>> /\ news = <<>> /\ fpc = "idle"
    /\ result = <<>> /\ fraised = FALSE
    /\ dsresp = <<>> /\ prompt = "" /\ analysis = "" /\ apc = "idle"
    /\ gfun = <<>> /\ gnews = <<>> /\ gprices = <<>> /\ gtext = ""
    /\ gresult = <<>> /\ gpc = "idle"
    /\ due = StartTime /\ ticks = 0 /\ clock = StartTime /\ tnow = StartTime
    /\ tpc = "off" /\ hot = <<>> /\ tmessage = <<>> /\ tcalls = {}
    /\ tescaped = FALSE /\ tlog = 0 /\ outbox = <<>>
    /\ conv = END /\ queue = <<>> /\ running = <<>> /\ messages = <<>>
    /\ last = <<>>

PricesNext == get_current_prices /\ UNCHANGED <<newsVars, deepseekVars, generateVars, tickVars, menuVars>>

SpecPrices == InitPrices /\ [][PricesNext]_vars

\* analyze_with_deepseek is called, against any answer of DeepSeek
InitDeepseek ==
    /\ dsresp \in DeepSeekResponses
    /\ prompt \in Prompts
    /\ analysis = "" /\ apc = "start"
    /\ now = StartTime /\ feeds = <<>> /\ news = <<>> /\ fpc = "idle"
    /\ result = <<>> /\ fraised = FALSE
    /\ market = <<>> /\ prices = <<>> /\ ppc = "idle"
    /\ gfun = <<>> /\ gnews = <<>> /\ gprices = <<>> /\ gtext = ""
    /\ gresult = <<>> /\ gpc = "idle"
    /\ due = StartTime /\ ticks = 0 /\ clock = StartTime /\ tnow = StartTime
    /\ tpc = "off" /\ hot = <<>> /\ tmessage = <<>> /\ tcalls = {}
    /\ tescaped = FALSE /\ tlog = 0 /\ outbox = <<>>
    /\ conv = END /\ queue = <<>> /\ running = <<>> /\ messages = <<>>
    /\ last = <<>>

DeepseekNext == analyze_with_deepseek /\ UNCHANGED <<newsVars, pricesVars, generateVars, tickVars, menuVars>>

SpecDeepseek == InitDeepseek /\ [][DeepseekNext]_vars

\* one of the three generators is called
InitGenerate ==
    /\ gfun \in Generators
    /\ gnews \in NewsInputs
    /\ gprices = <<>> /\ gtext = "" /\ gresult = <<>> /\ gpc = "start"
    /\ now = StartTime /\ feeds = <<>> /\ news = <<>> /\ fpc = "idle"
    /\ result = <<>> /\ fraised = FALSE
    /\ market = <<>> /\ prices = <<>> /\ ppc = "idle"
    /\ dsresp = <<>> /\ prompt = "" /\ analysis = "" /\ apc = "idle"
    /\ due = StartTime /\ ticks = 0 /\ clock = StartTime /\ tnow = StartTime
    /\ tpc = "off" /\ hot = <<>> /\ tmessage = <<>> /\ tcalls = {}
    /\ tescaped = FALSE /\ tlog = 0 /\ outbox = <<>>
    /\ conv = END /\ queue = <<>> /\ running = <<>> /\ messages = <<>>
    /\ last = <<>>

notGenerate == <<newsVars, pricesVars, deepseekVars, tickVars, menuVars>>

GenerateNext ==
    \/ GenPrices /\ UNCHANGED notGenerate
    \/ GenPrompt /\ UNCHANGED notGenerate
    \/ GenAnalyze /\ UNCHANGED notGenerate
    \/ GenReturn /\ UNCHANGED notGenerate

SpecGenerate == InitGenerate /\ [][GenerateNext]_vars

\* main() has registered the repeating job; it first fires at some minute
InitTick ==
    /\ due \in {StartTime + m : m \in FirstTicks}
    /\ ticks = 0 /\ clock = StartTime /\ tnow = StartTime
    /\ tpc = "idle" /\ hot = <<>> /\ tmessage = <<>> /\ tcalls = {}
    /\ tescaped = FALSE /\ tlog = 0 /\ outbox = <<>>
    /\ conv = END /\ queue = <<>> /\ running = <<>> /\ messages = <<>>
    /\ last = <<>>
    /\ now = StartTime /\ feeds = <<>> /\ news = <<>> /\ fpc = "idle"
    /\ result = <<>> /\ fraised = FALSE
    /\ market = <<>> /\ prices = <<>> /\ ppc = "idle"
    /\ dsresp = <<>> /\ prompt = "" /\ analysis = "" /\ apc = "idle"
    /\ gfun = <<>> /\ gnews = <<>> /\ gprices = <<>> /\ gtext = ""
    /\ gresult = <<>> /\ gpc = "idle"
    /\ conv = END /\ queue = <<>> /\ running = <<>> /\ messages = <<>>
    /\ last = <<>>

notTick == <<newsVars, pricesVars, deepseekVars, generateVars, menuVars>>

TickNext ==
    \/ TickStart /\ UNCHANGED notTick
    \/ TickFetch /\ UNCHANGED notTick
    \/ TickPrices /\ UNCHANGED notTick
    \/ TickSend /\ UNCHANGED notTick

SpecTick == InitTick /\ [][TickNext]_vars

\* the bot has started polling; the chat is empty
InitMenu ==
    /\ conv = END /\ queue = <<>> /\ running = <<>> /\ messages = <<>>
    /\ last = <<>>
    /\ now = StartTime /\ feeds = <<>> /\ news = <<>> /\ fpc = "idle"
    /\ result = <<>> /\ fraised = FALSE
    /\ market = <<>> /\ prices = <<>> /\ ppc = "idle"
    /\ dsresp = <<>> /\ prompt = "" /\ analysis = "" /\ apc = "idle"
    /\ gfun = <<>> /\ gnews = <<>> /\ gprices = <<>> /\ gtext = ""
    /\ gresult = <<>> /\ gpc = "idle"
    /\ due = StartTime /\ ticks = 0 /\ clock = StartTime /\ tnow = StartTime
    /\ tpc = "off" /\ hot = <<>> /\ tmessage = <<>> /\ tcalls = {}
    /\ tescaped = FALSE /\ tlog = 0 /\ outbox = <<>>

notMenu == <<newsVars, pricesVars, deepseekVars, generateVars, tickVars>>

MenuNext ==
    \/ UserStart /\ UNCHANGED notMenu
    \/ UserClick /\ UNCHANGED notMenu
    \/ Dispatch /\ UNCHANGED notMenu
    \/ HandlerFinish /\ UNCHANGED notMenu

SpecMenu == InitMenu /\ [][MenuNext]_vars

(***************************************************************************)
(* Claims about fetch_news, checked under SpecNews.                        *)
(***************************************************************************)
Failing(resp) == resp.kind \in FailKinds

\* the answers with every failing source replaced by one that answers 200
\* with nothing in it
WithoutFailing(world) ==
    [s \in 1..NumSources |->
        IF Failing(world[s]) THEN [kind |-> "ok", entries |-> <<>>] ELSE world[s]]

\* C1: whatever subset of the six sources fails with a network error, a
\* timeout or a status other than 200, fetch_news does not raise and returns
\* what the other sources alone produce; with all six failing, the empty list.
C1_SourceFailureIsolated ==
    fpc = "returned" =>
        /\ ~fraised
        /\ result = FetchNews(WithoutFailing(feeds), now)
        /\ (\A s \in 1..NumSources : Failing(feeds[s])) => result = <<>>

\* some sources fail, after and before sources that deliver items
C1_Witness ==
    /\ fpc = "returned"
    /\ Failing(feeds[1]) /\ Failing(feeds[3]) /\ Failing(feeds[6])
    /\ ~Failing(feeds[2]) /\ ~Failing(feeds[4])
    /\ \E i, j \in 1..Len(result) :
          result[i].source = "CoinDesk" /\ result[j].source = "Decrypt"

SortedDesc(list) ==
    \A i, j \in 1..Len(list) : i < j => list[i].published >= list[j].published

\* the entry of the answers an item was made from has a parsed date
FromDatedEntry(item) ==
    \E s \in 1..NumSources : \E k \in 1..Len(feeds[s].entries) :
        LET e == feeds[s].entries[k] IN
        /\ SourceNames[s] = item.source
        /\ e.id = item.title
        /\ e.date = "ok"
        /\ e.published = item.published

\* C2: the returned list is sorted by publish time descending, holds at most
\* 20 items, each published at or after now - 24h, none made from an entry
\* without a parsable publish date.
C2_NewsFeedListInvariant ==
    fpc = "returned" =>
        /\ SortedDesc(result)
        /\ Len(result) <= MaxNews
        /\ \A i \in 1..Len(result) :
              /\ result[i].published >= now - NewsWindow
              /\ FromDatedEntry(result[i])

\* more than 20 items were collected, out of order, next to an entry without
\* a date and one that is too old
C2_Witness ==
    /\ fpc = "returned"
    /\ Len(news) > MaxNews
    /\ Len(result) = MaxNews
    /\ ~SortedDesc(news)
    /\ \E s \in 1..NumSources : \E k \in 1..Len(feeds[s].entries) :
          feeds[s].kind = "ok" /\ feeds[s].entries[k].date # "ok"
    /\ \E s \in 1..NumSources : \E k \in 1..Len(feeds[s].entries) :
          feeds[s].kind = "ok" /\ feeds[s].entries[k].published < now - NewsWindow

Malformed(e) == e.date = "missing" \/ ~e.title \/ ~e.link

\* all required fields, and a timestamp the code parses and compares
WellFormed(e) == e.date = "ok" /\ e.title /\ e.link /\ e.tz = "naive"

\* C10: an item missing a required field (publish timestamp, title, link) is
\* skipped alone: every well-formed item of the same answer that is within
\* the 24h window is collected, those after the malformed one included.
\* (Stated for timestamps without an offset, which the code can compare.)
C10_MalformedItemSkippedAlone ==
    fpc = "returned" =>
        \A s \in 1..NumSources :
            (feeds[s].kind = "ok" /\ \E m \in 1..Len(feeds[s].entries) :
                                         Malformed(feeds[s].entries[m])) =>
                \A k \in 1..Len(feeds[s].entries) :
                    LET e == feeds[s].entries[k] IN
                    (WellFormed(e) /\ e.published >= now - NewsWindow) =>
                        NewsItem(SourceNames[s], e) \in Range(news)

\* a post as the API delivers it: all required fields, published_at ending in Z
ZStamped(post) == post.date = "ok" /\ post.title /\ post.link /\ post.tz = "utc"

\* C11: every CryptoPanic post that carries all required fields and whose
\* published_at ends in "Z" (parsed into an aware datetime) is collected by
\* fetch_news if and only if its publish time is >= now - 24h.
C11_ZStampedPostKeptIffFresh ==
    (fpc = "returned" /\ feeds[1].kind = "ok") =>
        \A k \in 1..Len(feeds[1].entries) :
            LET post == feeds[1].entries[k] IN
            ZStamped(post) =>
                (NewsItem("CryptoPanic", post) \in Range(news)
                    <=> post.published >= now - NewsWindow)

(***************************************************************************)
(* Claims about get_current_prices, checked under SpecPrices.              *)
(***************************************************************************)
MarketFails(resp) == resp.kind \in FailKinds

\* C3: when the market-data call raises, times out or answers with a status
\* other than 200, get_current_prices returns a mapping whose keys are exactly
\* the seven supported symbols, each with price "N/A" and change 0.
C3_FallbackIsComplete ==
    (ppc = "returned" /\ MarketFails(market)) =>
        /\ DOMAIN prices = Symbols
        /\ \A sym \in Symbols :
              ~prices[sym].priced /\ prices[sym].change = 0

C3_Witness ==
    /\ ppc = "returned"
    /\ market.kind = "timeout"
    /\ DOMAIN prices = Symbols

\* the known coins of a body whose entry has no price field
LacksUsd(body) == {id \in DOMAIN body : SymbolOf(id) # "" /\ body[id] = "nousd"}

\* C12: when the market answer is HTTP 200 and the entry of some coin lacks
\* its price field, only that coin is skipped: the returned mapping holds the
\* real price and 24h change of every other known coin of the answer.
C12_MissingFieldSkipsOnlyThatCoin ==
    (ppc = "returned" /\ market.kind = "ok" /\ LacksUsd(market.body) # {}) =>
        \A id \in DOMAIN market.body :
            (SymbolOf(id) # "" /\ id \notin LacksUsd(market.body)) =>
                /\ SymbolOf(id) \in DOMAIN prices
                /\ prices[SymbolOf(id)] = Quote(id, market.body[id])

(***************************************************************************)
(* Claims about analyze_with_deepseek, checked under SpecDeepseek.         *)
(***************************************************************************)
\* HTTP 200, a non-empty choices list, and message.content in its first element
CarriesContent(resp) ==
    /\ resp.kind = "ok"
    /\ resp.body.shape = "object"
    /\ resp.body.haschoices
    /\ Len(resp.body.choices) > 0
    /\ resp.body.choices[1].message
    /\ resp.body.choices[1].content

\* C8: analyze_with_deepseek returns the content of the first choice verbatim
\* when the answer is HTTP 200 with a non-empty choices list whose first
\* element carries message.content, and the fixed error string for every
\* other outcome; it never raises.
C8_ContentOrFixedError ==
    apc = "returned" =>
        IF CarriesContent(dsresp)
        THEN analysis = dsresp.body.choices[1].text
        ELSE analysis = ErrorText

\* a first choice without content, followed by one that has it
C8_Witness ==
    /\ apc = "returned"
    /\ dsresp.kind = "ok"
    /\ Len(dsresp.body.choices) = 2
    /\ ~dsresp.body.choices[1].content
    /\ dsresp.body.choices[2].content
    /\ analysis = ErrorText

(***************************************************************************)
(* Claims about the generators, checked under SpecGenerate.                *)
(***************************************************************************)
\* C9: whatever the market-data call and the text-generation call answer,
\* generate_full_analysis, generate_weekly_forecast and
\* generate_coin_analysis return a text and do not raise.
C9_GeneratorsNeverRaise == gpc # "raised"

(***************************************************************************)
(* Claims about send_scheduled_news, checked under SpecTick.               *)
(***************************************************************************)
\* the local minute of the day at which the running tick began
LocalMinute == MinuteOfDay(tnow)

\* C4: a tick whose local time of day lies outside 07:00 to 21:00, to the
\* minute, fetches no news, fetches no prices and sends nothing.
C4_OutsideWindowNoOp ==
    (ticks > 0 /\ ~(7 * 60 <= LocalMinute /\ LocalMinute <= 21 * 60)) =>
        tpc = "done" /\ tcalls = {} /\ outbox = <<>>

\* C5: a tick inside the window, as main() registers the job, delivers
\* exactly one message, with min(3, n) headlines and the price block, when
\* n >= 1 items are newer than 4h; with no such item it sends nothing and
\* does not call get_current_prices.
C5_OneDigestPerTick ==
    (tpc = "done" /\ ticks = 1 /\ ~OutsideHours(tnow)) =>
        IF Len(hot) >= 1
        THEN /\ Len(outbox) = 1
             /\ Len(outbox[1].text.items) =
                    (IF Len(hot) < MaxHeadlines THEN Len(hot) ELSE MaxHeadlines)
             /\ outbox[1].text = tmessage
        ELSE outbox = <<>> /\ "get_current_prices" \notin tcalls

\* C13: a tick never lets an exception escape: whatever fails inside it,
\* send_scheduled_news returns normally, so the repeating job stays
\* scheduled and the next tick can still run.
C13_TickNeverRaises ==
    /\ ~tescaped
    /\ (tpc = "done" /\ ticks < MaxTicks) => ENABLED TickStart

\* a later tick runs after one whose send failed and was logged
C13_Witness ==
    /\ ticks >= 2
    /\ tlog >= 1
    /\ tpc = "send"
    /\ ~tescaped

(***************************************************************************)
(* Claims about the menu dispatcher, checked under SpecMenu.               *)
(***************************************************************************)
\* the cancel button is shown by the placeholders only, so a cancel click on
\* message m that waits in the queue was made while m's generation ran
CancelPending(m) ==
    \E i \in 1..Len(queue) : queue[i].data = "cancel" /\ queue[i].msg = m

\* C6: once the user has selected "cancel" during a generation, the result
\* of that generation is not rendered, neither before nor after the cancel
\* is processed.
C6_CancelledResultNotRendered ==
    \A m \in 1..Len(messages) :
        CancelPending(m) => messages[m].text \notin Results

\* C7: after a /start command has been processed, in whatever conversation
\* state, the conversation state is idle.
C7_StartResetsConversation ==
    (last # <<>> /\ running = <<>> /\ last.update.data = "/start") => conv = END

====
